---- MODULE Spec2Model ----
(***************************************************************************)
(* DFSPH pressure solver (src/src/solver/pressure/dfsph_solver.rs).        *)
(* The scalar type N is modelled by fixed-point numbers and Vector<N>       *)
(* (DIM = 2) by a pair of them.                                            *)
(***************************************************************************)
EXTENDS Integers, Sequences, FiniteSets, TLC

\* ---------------------------------------------------------------- bounds
\* number of calls of step a behaviour may make
MaxSteps == 2
\* number of changes the driver may make to the fluids between steps
MaxEdits == 1
\* binary digits a scalar keeps after the point
FractionBits == 8

\* --------------------------------------------------------- N: RealField
\* A scalar is a binary fixed-point number: the integer x stands for
\* x / Scale. Sums, differences and comparisons are exact; a product or a
\* quotient is rounded towards zero to the next multiple of 1 / Scale, as a
\* float operation rounds to the next representable number.
Scale == 2 ^ FractionBits

Abs(x) == IF x < 0 THEN -x ELSE x
Sign(x) == IF x < 0 THEN -1 ELSE 1

\* the rounding operations, as functions of the operands' values
Trunc[n \in Int, d \in Int] == Sign(n) * Sign(d) * (Abs(n) \div Abs(d))
Product[x \in Int, y \in Int] ==
    Sign(x) * Sign(y) *
        ((Abs(x) \div Scale) * Abs(y) + (((Abs(x) % Scale) * Abs(y)) \div Scale))
Larger[x \in Int, y \in Int] == IF x < y THEN y ELSE x

Q(n, d) == Trunc[n * Scale, d]
Zero == 0
One == Scale

RAdd(x, y) == x + y
RNeg(x) == -x
RSub(x, y) == x - y
RMul(x, y) == Product[x, y]
RDiv(x, y) == Trunc[x * Scale, y]
RLt(x, y) == x < y
RLe(x, y) == x <= y
RMax(x, y) == Larger[x, y]
IsZero(x) == x = 0

\* the sum of the first n entries of s, added in order
RSumOf[s \in Seq(Int)] ==
    LET to[n \in 0..Len(s)] == IF n = 0 THEN Zero ELSE RAdd(to[n - 1], s[n])
    IN  to[Len(s)]
RSum(s) == RSumOf[s]

\* ------------------------------------------------------------- Vector<N>
Vectors == Int \X Int
VZero == <<Zero, Zero>>
V(x, y) == <<Q(x, 1), Q(y, 1)>>
VAddOf[u \in Vectors, v \in Vectors] == <<RAdd(u[1], v[1]), RAdd(u[2], v[2])>>
VScaleOf[u \in Vectors, r \in Int] == <<RMul(u[1], r), RMul(u[2], r)>>
VDotOf[u \in Vectors, v \in Vectors] == RAdd(RMul(u[1], v[1]), RMul(u[2], v[2]))
VSubOf[u \in Vectors, v \in Vectors] == <<RSub(u[1], v[1]), RSub(u[2], v[2])>>
VAdd(u, v) == VAddOf[u, v]
VSub(u, v) == VSubOf[u, v]
VScale(u, r) == VScaleOf[u, r]
VDot(u, v) == VDotOf[u, v]
VNormSq(u) == VDotOf[u, u]

VSumOf[s \in Seq(Vectors)] ==
    LET to[n \in 0..Len(s)] == IF n = 0 THEN VZero ELSE VAdd(to[n - 1], s[n])
    IN  to[Len(s)]
VSum(s) == VSumOf[s]

Min(a, b) == IF a < b THEN a ELSE b
Last(s) == s[Len(s)]

\* Vec::resize(n, fill)
Resize(s, n, fill) ==
    IF Len(s) >= n THEN SubSeq(s, 1, n)
    ELSE s \o [k \in 1..(n - Len(s)) |-> fill]

\* ------------------------------------------------------------- variables
VARIABLES
    \* DFSPHSolver fields
    min_pressure_iter, max_pressure_iter, max_density_error,
    min_divergence_iter, max_divergence_iter, max_divergence_error,
    alphas, densities, predicted_densities, divergences, velocity_changes,
    \* arguments of the trait methods, owned by the caller
    fluids, boundaries, contact_manager, dt, gravity,
    \* the caller's position in its cycle and step's position in its body
    pc, iter, avg_err,
    \* bookkeeping: the phases run by the current call of step, the
    \* apply_force calls of the last velocity update, the contact layout the
    \* kernel collaborator produces, and the counters the bounds cap
    phases, applied, scene, steps, edits

config == <<min_pressure_iter, max_pressure_iter, max_density_error,
            min_divergence_iter, max_divergence_iter, max_divergence_error>>
buffers == <<alphas, densities, predicted_densities, divergences, velocity_changes>>
world == <<fluids, boundaries, contact_manager, dt, gravity>>
vars == <<config, buffers, world, pc, iter, avg_err, phases, applied, scene, steps, edits>>

\* if DIM == 2 { 6 } else { 20 }, with DIM = 2
min_neighbors_for_divergence_solve == 6

\* ------------------------------------------------- Fluid and Boundary (callers' data)
num_particles(fluid) == Len(fluid.positions)
particle_mass(fluid, i) == fluid.mass
deleted_particles_mask(fluid) == fluid.deleted_particles
num_deleted_particles(fluid) ==
    Cardinality({i \in 1..Len(fluid.deleted_particles) : fluid.deleted_particles[i]})

NewFluid(vels, rho0, forces) ==
    [positions |-> [i \in 1..Len(vels) |-> VZero],
     velocities |-> vels,
     accelerations |-> [i \in 1..Len(vels) |-> VZero],
     density0 |-> rho0,
     mass |-> One,
     deleted_particles |-> [i \in 1..Len(vels) |-> FALSE],
     nonpressure_forces |-> forces]

\* one boundary of four particles (a floor), at rest
NumBoundaryParticles == 4

TheBoundaries ==
    << [volumes |-> [j \in 1..NumBoundaryParticles |-> Zero],
        velocities |-> [j \in 1..NumBoundaryParticles |-> VZero],
        forces |-> [j \in 1..NumBoundaryParticles |-> VZero]] >>

\* Boundary::apply_force(j, f): the accumulator of the boundary
apply_force(bs, b, j, f) ==
    [bs EXCEPT ![b].forces[j] = VAdd(@, f)]

RECURSIVE apply_forces_to(_, _, _)
apply_forces_to(bs, calls, n) ==
    IF n = 0 THEN bs
    ELSE apply_force(apply_forces_to(bs, calls, n - 1),
                     calls[n].j_model, calls[n].j, calls[n].force)
apply_forces(bs, calls) == apply_forces_to(bs, calls, Len(calls))

\* ------------------------------------ contacts (the kernel collaborator's output)
Contact(am, i, bm, j, w, g) ==
    [i_model |-> am, i |-> i, j_model |-> bm, j |-> j, weight |-> w, gradient |-> g]

\* position of particle (a, i) in the row of all fluid particles
RECURSIVE Before(_, _)
Before(fs, a) == IF a <= 1 THEN 0 ELSE Before(fs, a - 1) + num_particles(fs[a - 1])
Ord(fs, a, i) == Before(fs, a) + i

\* every fluid particle, in row order
RECURSIVE ParticlesTo(_, _)
ParticlesTo(fs, a) ==
    IF a = 0 THEN <<>>
    ELSE ParticlesTo(fs, a - 1) \o [i \in 1..num_particles(fs[a]) |-> <<a, i>>]
AllParticles(fs) == ParticlesTo(fs, Len(fs))

\* the gradient of the kernel at i for the neighbour j: along the row, from i
\* towards j, and zero for the particle itself
RowGradient(fs, a, i, b, j) ==
    IF Ord(fs, a, i) < Ord(fs, b, j) THEN V(1, 0)
    ELSE IF Ord(fs, a, i) > Ord(fs, b, j) THEN V(-1, 0)
    ELSE VZero

SelfContacts(fs, a, i) == << Contact(a, i, a, i, One, VZero) >>
RowContacts(fs, a, i) ==
    LET ps == AllParticles(fs)
    IN  [k \in 1..Len(ps) |->
            Contact(a, i, ps[k][1], ps[k][2], One, RowGradient(fs, a, i, ps[k][1], ps[k][2]))]
FloorContacts(bs, a, i) ==
    [j \in 1..Len(bs[1].volumes) |-> Contact(a, i, 1, j, One, V(0, -1))]

\* the contact layouts: "void" (the fluid particles see nothing) and "bare"
\* (the boundary particles see nothing), two broken contact graphs; "isolated" (each particle sees itself only), "row" (all fluid particles see
\* each other), "floor" (row, all resting on the boundary), "shelf" (row, the
\* first particle alone resting on the boundary)
Scenes == {"void", "bare", "isolated", "row", "floor", "shelf"}

FluidFluidContacts(sc, fs) ==
    [a \in 1..Len(fs) |-> [i \in 1..num_particles(fs[a]) |->
        CASE sc = "void" -> <<>>
          [] sc = "isolated" -> SelfContacts(fs, a, i)
          [] OTHER -> RowContacts(fs, a, i)]]

FluidBoundaryContacts(sc, fs, bs) ==
    [a \in 1..Len(fs) |-> [i \in 1..num_particles(fs[a]) |->
        CASE sc = "floor" -> FloorContacts(bs, a, i)
          [] sc = "shelf" /\ Ord(fs, a, i) = 1 -> FloorContacts(bs, a, i)
          [] OTHER -> <<>>]]

\* every boundary particle sees itself and the next one of the boundary
BoundaryBoundaryContacts(sc, bs) ==
    [b \in 1..Len(bs) |-> [j \in 1..Len(bs[b].volumes) |->
        IF sc = "bare" THEN <<>>
        ELSE << Contact(b, j, b, j, One, VZero),
                Contact(b, j, b, (j % Len(bs[b].volumes)) + 1, One, V(1, 0)) >>]]

update_contacts(sc, fs, bs) ==
    [fluid_fluid_contacts |-> FluidFluidContacts(sc, fs),
     fluid_boundary_contacts |-> FluidBoundaryContacts(sc, fs, bs),
     boundary_boundary_contacts |-> BoundaryBoundaryContacts(sc, bs)]

NoContacts ==
    [fluid_fluid_contacts |-> <<>>, fluid_boundary_contacts |-> <<>>,
     boundary_boundary_contacts |-> <<>>]

\* --------------------------------------------------------- solver phases
RECURSIVE FlattenTo(_, _)
FlattenTo(ss, n) == IF n = 0 THEN <<>> ELSE FlattenTo(ss, n - 1) \o ss[n]
Flatten(ss) == FlattenTo(ss, Len(ss))

\* the per-fluid mean of the per-particle errors, and the max over the fluids
\* (max_error = max_error.max(err / nparts) when nparts != 0)
RECURSIVE MaxError(_, _, _)
MaxError(errs, fs, a) ==
    IF a = 0 THEN Zero
    ELSE LET rest == MaxError(errs, fs, a - 1)
             nparts == num_particles(fs[a])
         IN  IF nparts # 0 THEN RMax(rest, RDiv(RSum(errs[a]), Q(nparts, 1))) ELSE rest

\* compute_boundary_volumes
volume_denominator(bbc, b, i) == RSum([k \in 1..Len(bbc[b][i]) |-> bbc[b][i][k].weight])
boundary_volumes_asserted(bbc, bs) ==
    \A b \in 1..Len(bs) : \A i \in 1..Len(bs[b].volumes) :
        ~IsZero(volume_denominator(bbc, b, i))
compute_boundary_volumes(bbc, bs) ==
    [b \in 1..Len(bs) |->
        [bs[b] EXCEPT !.volumes =
            [i \in 1..Len(bs[b].volumes) |->
                IF IsZero(volume_denominator(bbc, b, i)) THEN bs[b].volumes[i]
                ELSE RDiv(One, volume_denominator(bbc, b, i))]]]

\* compute_densities, one particle
density_of(cm, fs, bs, fluid_id, i) ==
    LET ffc == cm.fluid_fluid_contacts[fluid_id][i]
        fbc == cm.fluid_boundary_contacts[fluid_id][i]
    IN  RAdd(RSum([k \in 1..Len(ffc) |->
                    RMul(particle_mass(fs[ffc[k].j_model], ffc[k].j), ffc[k].weight)]),
             RSum([k \in 1..Len(fbc) |->
                    RMul(RMul(bs[fbc[k].j_model].volumes[fbc[k].j],
                              fs[fbc[k].i_model].density0), fbc[k].weight)]))

\* compute_alphas, one particle (this is alpha_i / density_i)
alpha_of(cm, fs, bs, fluid_id, i) ==
    LET ffc == cm.fluid_fluid_contacts[fluid_id][i]
        fbc == cm.fluid_boundary_contacts[fluid_id][i]
        grads == [k \in 1..Len(ffc) |->
                    VScale(ffc[k].gradient, particle_mass(fs[ffc[k].j_model], ffc[k].j))]
                 \o
                 [k \in 1..Len(fbc) |->
                    VScale(VScale(fbc[k].gradient, bs[fbc[k].j_model].volumes[fbc[k].j]),
                           fs[fluid_id].density0)]
        squared_grad_sum == RSum([k \in 1..Len(grads) |-> VNormSq(grads[k])])
        grad_sum == VSum(grads)
        denominator == RAdd(squared_grad_sum, VNormSq(grad_sum))
    IN  IF RLe(denominator, Q(1, 1000000)) THEN Zero ELSE RDiv(One, denominator)

compute_alphas(cm, fs, bs) ==
    [a \in 1..Len(fs) |-> [i \in 1..Len(alphas[a]) |-> alpha_of(cm, fs, bs, a, i)]]

\* compute_predicted_densities, one particle
predicted_density_of(dvs, rhos, h, cm, fs, bs, fluid_id, i) ==
    LET ffc == cm.fluid_fluid_contacts[fluid_id][i]
        fbc == cm.fluid_boundary_contacts[fluid_id][i]
        fluid_i == fs[fluid_id]
        delta ==
            RAdd(RSum([k \in 1..Len(ffc) |->
                    LET c == ffc[k]
                        vi == VAdd(fluid_i.velocities[c.i], dvs[c.i_model][c.i])
                        vj == VAdd(fs[c.j_model].velocities[c.j], dvs[c.j_model][c.j])
                    IN  RMul(particle_mass(fs[c.j_model], c.j),
                             VDot(VSub(vi, vj), c.gradient))]),
                 RSum([k \in 1..Len(fbc) |->
                    LET c == fbc[k]
                        vi == VAdd(fluid_i.velocities[c.i], dvs[c.i_model][c.i])
                        vj == bs[c.j_model].velocities[c.j]
                    IN  RMul(RMul(bs[c.j_model].volumes[c.j], fluid_i.density0),
                             VDot(VSub(vi, vj), c.gradient))]))
    IN  RAdd(rhos[fluid_id][i], RMul(delta, h))

density_error_of(predicted_density, fluid_i) ==
    IF RLt(predicted_density, fluid_i.density0) THEN Zero
    ELSE RSub(RDiv(predicted_density, fluid_i.density0), One)

compute_predicted_densities(dvs, rhos, h, cm, fs, bs) ==
    LET values == [a \in 1..Len(fs) |-> [i \in 1..Len(predicted_densities[a]) |->
                        predicted_density_of(dvs, rhos, h, cm, fs, bs, a, i)]]
        errs == [a \in 1..Len(fs) |-> [i \in 1..Len(values[a]) |->
                        density_error_of(values[a][i], fs[a])]]
    IN  [values |-> values,
         asserted |-> \A a \in 1..Len(fs) : \A i \in 1..Len(values[a]) :
                          ~IsZero(values[a][i]),
         max_error |-> MaxError(errs, fs, Len(fs))]

\* boundaries[c.j_model].apply_force(c.j, delta * (timestep.inv_dt() * particle_mass))
boundary_force(delta, inv_dt, mass) == VScale(delta, RMul(inv_dt, mass))

\* the sign of inv_dt forgotten
boundary_force_unsigned(delta, inv_dt, mass) == VScale(delta, RMul(inv_dt, mass))

\* boundary2.apply_force(c.j, delta * (-timestep.inv_dt() * particle_mass))
boundary_force_for_divergence(delta, inv_dt, mass) ==
    VScale(delta, RMul(RNeg(inv_dt), mass))

\* the operands of the difference swapped
pressure_stiffness_swapped(pds, als, fs, a, i) ==
    RMul(RSub(fs[a].density0, pds[a][i]), als[a][i])

\* ki = (predicted_densities[fluid_id][i] - fluid1.density0) * alphas[fluid_id][i]
pressure_stiffness(pds, als, fs, a, i) ==
    RMul(RSub(pds[a][i], fs[a].density0), als[a][i])

\* compute_velocity_changes, one particle: the new velocity change and the
\* apply_force calls the particle's task makes, in order
velocity_change_of(dvs, pds, als, h, cm, fs, bs, fluid_id, i) ==
    LET ffc == cm.fluid_fluid_contacts[fluid_id][i]
        fbc == cm.fluid_boundary_contacts[fluid_id][i]
        fluid1 == fs[fluid_id]
        inv_dt == RDiv(One, h)
        ki == pressure_stiffness(pds, als, fs, fluid_id, i)
        fluid_terms == [k \in 1..Len(ffc) |->
            LET c == ffc[k]
                kj == pressure_stiffness(pds, als, fs, c.j_model, c.j)
                kij == RAdd(RMax(ki, Zero), RMax(kj, Zero))
                coeff == RMul(kij, particle_mass(fs[c.j_model], c.j))
            IN  IF RLt(Zero, kij) THEN VScale(c.gradient, RMul(coeff, inv_dt)) ELSE VZero]
        deltas == [k \in 1..Len(fbc) |->
            LET c == fbc[k]
                coeff == RMul(RMul(ki, bs[c.j_model].volumes[c.j]), fluid1.density0)
            IN  VScale(c.gradient, RMul(coeff, inv_dt))]
        boundary_terms == IF RLt(Zero, ki) THEN deltas ELSE <<>>
    IN  [velocity_change |-> VSub(VSub(dvs[fluid_id][i], VSum(fluid_terms)),
                                  VSum(boundary_terms)),
         calls |-> [k \in 1..Len(boundary_terms) |->
                      [i_model |-> fluid_id, i |-> i,
                       j_model |-> fbc[k].j_model, j |-> fbc[k].j,
                       delta |-> boundary_terms[k],
                       contribution |-> VSub(VZero, boundary_terms[k]),
                       force |-> boundary_force(boundary_terms[k], inv_dt,
                                                particle_mass(fluid1, fbc[k].i))]]]

compute_velocity_changes(dvs, pds, als, h, cm, fs, bs) ==
    LET each == [a \in 1..Len(fs) |-> [i \in 1..Len(dvs[a]) |->
                    velocity_change_of(dvs, pds, als, h, cm, fs, bs, a, i)]]
    IN  [values |-> [a \in 1..Len(fs) |-> [i \in 1..Len(dvs[a]) |->
                        each[a][i].velocity_change]],
         calls |-> Flatten([a \in 1..Len(fs) |->
                        Flatten([i \in 1..Len(dvs[a]) |-> each[a][i].calls])])]

\* the gate forgotten
neighbors_gate_forgotten(ffc, fbc) == FALSE

\* fluid contacts + boundary contacts < min_neighbors_for_divergence_solve
below_min_neighbors(ffc, fbc) ==
    Len(ffc) + Len(fbc) < min_neighbors_for_divergence_solve

\* compute_divergences, one particle
divergence_of(dvs, cm, fs, bs, fluid_id, i) ==
    LET ffc == cm.fluid_fluid_contacts[fluid_id][i]
        fbc == cm.fluid_boundary_contacts[fluid_id][i]
        fluid_i == fs[fluid_id]
        sum ==
            RAdd(RSum([k \in 1..Len(ffc) |->
                    LET c == ffc[k]
                        v_i == VAdd(fluid_i.velocities[c.i], dvs[c.i_model][c.i])
                        v_j == VAdd(fs[c.j_model].velocities[c.j], dvs[c.j_model][c.j])
                    IN  RMul(VDot(VSub(v_i, v_j), c.gradient),
                             particle_mass(fs[c.j_model], c.j))]),
                 RSum([k \in 1..Len(fbc) |->
                    LET c == fbc[k]
                        v_i == VAdd(fluid_i.velocities[c.i], dvs[c.i_model][c.i])
                    IN  RMul(RMul(VDot(v_i, c.gradient), bs[c.j_model].volumes[c.j]),
                             fluid_i.density0)]))
    IN  IF below_min_neighbors(ffc, fbc) THEN Zero
        ELSE RMax(sum, Zero)

compute_divergences(dvs, cm, fs, bs) ==
    LET values == [a \in 1..Len(fs) |-> [i \in 1..Len(divergences[a]) |->
                        divergence_of(dvs, cm, fs, bs, a, i)]]
        errs == [a \in 1..Len(fs) |-> [i \in 1..Len(values[a]) |->
                        RDiv(values[a][i], fs[a].density0)]]
    IN  [values |-> values, max_error |-> MaxError(errs, fs, Len(fs))]

\* compute_velocity_changes_for_divergence, one particle
divergence_stiffness(dis, als, a, i) == RMul(dis[a][i], als[a][i])

\* a smoothing term added that reads the neighbours' velocity changes, which
\* this phase writes
velocity_change_for_divergence_smoothed(dvs, dis, als, h, cm, fs, bs, fluid_id, i) ==
    LET ffc == cm.fluid_fluid_contacts[fluid_id][i]
        fbc == cm.fluid_boundary_contacts[fluid_id][i]
        fluid1 == fs[fluid_id]
        inv_dt == RDiv(One, h)
        ki == divergence_stiffness(dis, als, fluid_id, i)
        fluid_terms == [k \in 1..Len(ffc) |->
            LET c == ffc[k]
                kj == divergence_stiffness(dis, als, c.j_model, c.j)
                coeff == RMul(RNeg(RAdd(ki, kj)), particle_mass(fs[c.j_model], c.j))
            IN  VAdd(VScale(c.gradient, coeff),
                     VSub(dvs[c.j_model][c.j], dvs[fluid_id][i]))]
        deltas == [k \in 1..Len(fbc) |->
            LET c == fbc[k]
                coeff == RMul(RMul(RNeg(ki), bs[c.j_model].volumes[c.j]), fluid1.density0)
            IN  VScale(c.gradient, coeff)]
    IN  [velocity_change |-> VAdd(VAdd(dvs[fluid_id][i], VSum(fluid_terms)), VSum(deltas)),
         calls |-> [k \in 1..Len(deltas) |->
                      [i_model |-> fluid_id, i |-> i,
                       j_model |-> fbc[k].j_model, j |-> fbc[k].j,
                       delta |-> deltas[k],
                       contribution |-> deltas[k],
                       force |-> boundary_force_for_divergence(deltas[k], inv_dt,
                                        particle_mass(fluid1, fbc[k].i))]]]

velocity_change_for_divergence_of(dvs, dis, als, h, cm, fs, bs, fluid_id, i) ==
    LET ffc == cm.fluid_fluid_contacts[fluid_id][i]
        fbc == cm.fluid_boundary_contacts[fluid_id][i]
        fluid1 == fs[fluid_id]
        inv_dt == RDiv(One, h)
        ki == divergence_stiffness(dis, als, fluid_id, i)
        fluid_terms == [k \in 1..Len(ffc) |->
            LET c == ffc[k]
                kj == divergence_stiffness(dis, als, c.j_model, c.j)
                coeff == RMul(RNeg(RAdd(ki, kj)), particle_mass(fs[c.j_model], c.j))
            IN  VScale(c.gradient, coeff)]
        deltas == [k \in 1..Len(fbc) |->
            LET c == fbc[k]
                coeff == RMul(RMul(RNeg(ki), bs[c.j_model].volumes[c.j]), fluid1.density0)
            IN  VScale(c.gradient, coeff)]
    IN  [velocity_change |-> VAdd(VAdd(dvs[fluid_id][i], VSum(fluid_terms)), VSum(deltas)),
         calls |-> [k \in 1..Len(deltas) |->
                      [i_model |-> fluid_id, i |-> i,
                       j_model |-> fbc[k].j_model, j |-> fbc[k].j,
                       delta |-> deltas[k],
                       contribution |-> deltas[k],
                       force |-> boundary_force_for_divergence(deltas[k], inv_dt,
                                        particle_mass(fluid1, fbc[k].i))]]]

compute_velocity_changes_for_divergence(dvs, dis, als, h, cm, fs, bs) ==
    LET each == [a \in 1..Len(fs) |-> [i \in 1..Len(dvs[a]) |->
                    velocity_change_for_divergence_of(dvs, dis, als, h, cm, fs, bs, a, i)]]
    IN  [values |-> [a \in 1..Len(fs) |-> [i \in 1..Len(dvs[a]) |->
                        each[a][i].velocity_change]],
         calls |-> Flatten([a \in 1..Len(fs) |->
                        Flatten([i \in 1..Len(dvs[a]) |-> each[a][i].calls])])]

\* update_velocities: vel += delta over the zip of the two sequences
update_velocities(fs, dvs) ==
    [a \in 1..Len(fs) |->
        IF a > Len(dvs) THEN fs[a]
        ELSE [fs[a] EXCEPT !.velocities =
                [i \in 1..Len(fs[a].velocities) |->
                    IF i > Len(dvs[a]) THEN fs[a].velocities[i]
                    ELSE VAdd(fs[a].velocities[i], dvs[a][i])]]]

\* the zeroing forgotten
keep_velocity_changes(dvs) == dvs

\* self.velocity_changes ... v.fill(N::zero())
clear_velocity_changes(dvs) == [a \in 1..Len(dvs) |-> [i \in 1..Len(dvs[a]) |-> VZero]]

\* predict_advection: gravity, then every non-pressure force of the fluid (a
\* contributor adds its own acceleration to every particle)
predict_advection(fs, g) ==
    [a \in 1..Len(fs) |->
        [fs[a] EXCEPT !.accelerations =
            [i \in 1..Len(fs[a].accelerations) |->
                VAdd(VAdd(fs[a].accelerations[i], g), VSum(fs[a].nonpressure_forces))]]]

\* the time step forgotten: dv += acceleration
integrate_accelerations_no_dt(dvs, fs, h) ==
    [a \in 1..Len(dvs) |->
        IF a > Len(fs) THEN dvs[a]
        ELSE [i \in 1..Len(dvs[a]) |->
                IF i > Len(fs[a].accelerations) THEN dvs[a][i]
                ELSE VAdd(dvs[a][i], fs[a].accelerations[i])]]

\* integrate_and_clear_accelerations
integrate_accelerations(dvs, fs, h) ==
    [a \in 1..Len(dvs) |->
        IF a > Len(fs) THEN dvs[a]
        ELSE [i \in 1..Len(dvs[a]) |->
                IF i > Len(fs[a].accelerations) THEN dvs[a][i]
                ELSE VAdd(dvs[a][i], VScale(fs[a].accelerations[i], h))]]
clear_accelerations(dvs, fs) ==
    [a \in 1..Len(fs) |->
        IF a > Len(dvs) THEN fs[a]
        ELSE [fs[a] EXCEPT !.accelerations =
                [i \in 1..Len(fs[a].accelerations) |->
                    IF i > Len(dvs[a]) THEN fs[a].accelerations[i] ELSE VZero]]]

\* the velocity change folded into the velocity a second time, with the positions
update_positions_committing(fs, dvs, h) ==
    [a \in 1..Len(fs) |->
        IF a > Len(dvs) THEN fs[a]
        ELSE [fs[a] EXCEPT
                !.positions =
                    [i \in 1..Len(fs[a].positions) |->
                        IF i > Len(dvs[a]) THEN fs[a].positions[i]
                        ELSE VAdd(fs[a].positions[i],
                                  VScale(VAdd(fs[a].velocities[i], dvs[a][i]), h))],
                !.velocities =
                    [i \in 1..Len(fs[a].velocities) |->
                        IF i > Len(dvs[a]) THEN fs[a].velocities[i]
                        ELSE VAdd(fs[a].velocities[i], dvs[a][i])]]]

\* update_positions: pos += (vel + delta) * dt
update_positions(fs, dvs, h) ==
    [a \in 1..Len(fs) |->
        IF a > Len(dvs) THEN fs[a]
        ELSE [fs[a] EXCEPT !.positions =
                [i \in 1..Len(fs[a].positions) |->
                    IF i > Len(dvs[a]) THEN fs[a].positions[i]
                    ELSE VAdd(fs[a].positions[i],
                              VScale(VAdd(fs[a].velocities[i], dvs[a][i]), h))]]]

\* crate::helper::filter_from_mask: keep data[i] when mask[i] is not set
RECURSIVE retain_from(_, _, _)
retain_from(mask, data, i) ==
    IF i > Len(data) THEN <<>>
    ELSE (IF mask[i] THEN <<>> ELSE << data[i] >>) \o retain_from(mask, data, i + 1)
filter_from_mask(mask, data) == retain_from(mask, data, 1)

\* the compaction forgotten, and a truncation in place of the compaction
init_buffer_no_compaction(buffer, fs, fill) ==
    LET outer == Resize(buffer, Len(fs), <<>>)
    IN  [a \in 1..Len(fs) |-> Resize(outer[a], num_particles(fs[a]), fill)]
init_buffer_truncating(buffer, fs, fill) ==
    LET outer == Resize(buffer, Len(fs), <<>>)
    IN  [a \in 1..Len(fs) |->
            Resize(outer[a], num_particles(fs[a]) - num_deleted_particles(fs[a]), fill)]

\* init_with_fluids, one buffer: the outer resize, then per fluid the inner
\* resize and the compaction against the deletion mask
init_buffer(buffer, fs, fill) ==
    LET outer == Resize(buffer, Len(fs), <<>>)
    IN  [a \in 1..Len(fs) |->
            LET inner == Resize(outer[a], num_particles(fs[a]), fill)
            IN  IF num_deleted_particles(fs[a]) # 0
                THEN filter_from_mask(deleted_particles_mask(fs[a]), inner)
                ELSE inner]

\* Fluid::apply_particles_removal
apply_particles_removal(fluid) ==
    IF num_deleted_particles(fluid) = 0 THEN fluid
    ELSE LET mask == fluid.deleted_particles
             kept == filter_from_mask(mask, fluid.positions)
         IN  [fluid EXCEPT
                !.positions = kept,
                !.velocities = filter_from_mask(mask, fluid.velocities),
                !.accelerations = filter_from_mask(mask, fluid.accelerations),
                !.deleted_particles = [i \in 1..Len(kept) |-> FALSE]]

\* variants of the loop tests with a slip in them: the minimum taken for the
\* cap, one iteration too many, || for &&, the minimum forgotten
divergence_loop_to_minimum(i) == i < min_divergence_iter
pressure_loop_one_more(i) == i <= max_pressure_iter
pressure_converged_either(err, i) == RLe(err, max_density_error) \/ i >= min_pressure_iter
pressure_converged_no_minimum(err, i) == RLe(err, max_density_error)

\* the break test of the two solver loops
pressure_converged(err, i) == RLe(err, max_density_error) /\ i >= min_pressure_iter
divergence_converged(err, i, h) ==
    /\ RLe(err, RMul(RMul(max_divergence_error, RDiv(One, h)), Q(1, 100)))
    /\ i >= min_divergence_iter
\* the test of `for i in 0..max`
pressure_loop_continues(i) == i < max_pressure_iter
divergence_loop_continues(i) == i < max_divergence_iter

\* ------------------------------------------------------------ the inputs
\* <<min iterations, max iterations, tolerance>>, used for both solver loops:
\* the shape of the defaults (min 1, a cap, a percent tolerance), the cap of
\* three with a zero tolerance, and a minimum above the cap
IterationSettings ==
    { <<1, 2, Q(1, 20), Q(1, 10)>>, <<0, 3, Zero, Zero>>, <<2, 1, Q(1, 20), Q(1, 10)>> }

\* the fluids the simulation starts with
OneParticle == << NewFluid(<< V(1, 0) >>, One, <<>>) >>
ClosingPair == << NewFluid(<< V(1, 0), V(-1, 0) >>, Q(2, 1), <<>>) >>
PartingPair == << NewFluid(<< V(-2, 0), V(2, 0) >>, One, <<>>) >>
TwoFluids ==
    << NewFluid(<< V(0, -1), V(0, -2) >>, One, << V(1, 0) >>),
       NewFluid(<< V(0, 0) >>, Q(2, 1), <<>>) >>

\* <<fluids, contact layout>>: an isolated particle, two particles closing in
\* on each other (free and on the floor), two particles flying apart, two
\* fluids falling on the floor and on the shelf, and the two broken graphs
Worlds ==
    { <<OneParticle, "isolated">>, <<OneParticle, "void">>, <<OneParticle, "bare">>,
      <<ClosingPair, "row">>, <<ClosingPair, "floor">>, <<PartingPair, "row">>,
      <<TwoFluids, "floor">>, <<TwoFluids, "shelf">> }

\* the time steps TimestepManager::advance may select
TimeSteps == { One, Q(1, 2) }

Init ==
    /\ \E s \in IterationSettings :
        /\ min_pressure_iter = s[1]
        /\ max_pressure_iter = s[2]
        /\ max_density_error = s[3]
        /\ min_divergence_iter = s[1]
        /\ max_divergence_iter = s[2]
        /\ max_divergence_error = s[4]
    /\ alphas = <<>>
    /\ densities = <<>>
    /\ predicted_densities = <<>>
    /\ divergences = <<>>
    /\ velocity_changes = <<>>
    /\ \E w \in Worlds : fluids = w[1] /\ scene = w[2]
    /\ boundaries = TheBoundaries
    /\ contact_manager = NoContacts
    /\ dt = One
    /\ gravity = V(0, -1)
    /\ pc = "idle"
    /\ iter = 0
    /\ avg_err = Zero
    /\ phases = <<>>
    /\ applied = <<>>
    /\ steps = 0
    /\ edits = 0

\* -------------------------------------------- the caller, between two steps
Edit(fs) ==
    /\ pc = "idle"
    /\ steps < MaxSteps
    /\ edits < MaxEdits
    /\ edits' = edits + 1
    /\ fluids' = fs
    /\ phases' = <<>>
    /\ UNCHANGED <<config, buffers, boundaries, contact_manager, dt, gravity,
                   pc, iter, avg_err, applied, scene, steps>>

\* Fluid::delete_particle_at_next_timestep
DeleteParticle ==
    \E a \in 1..Len(fluids) : \E i \in 1..num_particles(fluids[a]) :
        /\ ~fluids[a].deleted_particles[i]
        /\ Edit([fluids EXCEPT ![a].deleted_particles[i] = TRUE])

\* Fluid::add_particles, one particle at rest
AddParticle ==
    \E a \in 1..Len(fluids) :
        Edit([fluids EXCEPT
                ![a].positions = Append(@, VZero),
                ![a].velocities = Append(@, VZero),
                ![a].accelerations = Append(@, VZero),
                ![a].deleted_particles = Append(@, FALSE)])

\* LiquidWorld::add_fluid / remove_fluid
AddFluid == Edit(Append(fluids, NewFluid(<< V(0, -1) >>, One, <<>>)))
RemoveFluid ==
    \E a \in 1..Len(fluids) :
        Edit(SubSeq(fluids, 1, a - 1) \o SubSeq(fluids, a + 1, Len(fluids)))

\* init_with_fluids
InitWithFluids ==
    /\ pc = "idle"
    /\ steps < MaxSteps
    /\ alphas' = init_buffer(alphas, fluids, Zero)
    /\ densities' = init_buffer(densities, fluids, Zero)
    /\ predicted_densities' = init_buffer(predicted_densities, fluids, Zero)
    /\ divergences' = init_buffer(divergences, fluids, Zero)
    /\ velocity_changes' = init_buffer(velocity_changes, fluids, VZero)
    /\ pc' = "apply_particles_removal"
    /\ phases' = <<>>
    /\ UNCHANGED <<config, world, iter, avg_err, applied, scene, steps, edits>>

ApplyParticlesRemoval ==
    /\ pc = "apply_particles_removal"
    /\ fluids' = [a \in 1..Len(fluids) |-> apply_particles_removal(fluids[a])]
    /\ pc' = "evaluate_kernels"
    /\ UNCHANGED <<config, buffers, boundaries, contact_manager, dt, gravity,
                   iter, avg_err, phases, applied, scene, steps, edits>>

\* evaluate_kernels
EvaluateKernels ==
    /\ pc = "evaluate_kernels"
    /\ contact_manager' = update_contacts(scene, fluids, boundaries)
    /\ pc' = "compute_densities"
    /\ UNCHANGED <<config, buffers, fluids, boundaries, dt, gravity,
                   iter, avg_err, phases, applied, scene, steps, edits>>

\* compute_densities
ComputeDensities ==
    /\ pc = "compute_densities"
    /\ LET cm == contact_manager
           bs == compute_boundary_volumes(cm.boundary_boundary_contacts, boundaries)
           rhos == [a \in 1..Len(fluids) |-> [i \in 1..Len(densities[a]) |->
                        density_of(cm, fluids, bs, a, i)]]
       IN  /\ boundaries' = bs
           /\ densities' = IF boundary_volumes_asserted(cm.boundary_boundary_contacts,
                                                         boundaries)
                           THEN rhos ELSE densities
           /\ pc' = IF /\ boundary_volumes_asserted(cm.boundary_boundary_contacts,
                                                     boundaries)
                       /\ \A a \in 1..Len(rhos) : \A i \in 1..Len(rhos[a]) :
                              ~IsZero(rhos[a][i])
                    THEN "compute_alphas" ELSE "panic"
    /\ UNCHANGED <<config, alphas, predicted_densities, divergences, velocity_changes,
                   fluids, contact_manager, dt, gravity,
                   iter, avg_err, phases, applied, scene, steps, edits>>

\* ------------------------------------------------------------------ step
StepFrame == <<config, boundaries, contact_manager, gravity, scene, steps, edits>>

\* step: compute_alphas
ComputeAlphas ==
    /\ pc = "compute_alphas"
    /\ alphas' = compute_alphas(contact_manager, fluids, boundaries)
    /\ phases' = << "compute_alphas" >>
    /\ iter' = 0
    /\ pc' = IF divergence_loop_continues(0) THEN "compute_divergences"
             ELSE "update_velocities"
    /\ UNCHANGED <<StepFrame, densities, predicted_densities, divergences,
                   velocity_changes, fluids, dt, avg_err, applied>>

\* divergence_solve: compute_divergences and the break test
ComputeDivergences ==
    /\ pc = "compute_divergences"
    /\ LET r == compute_divergences(velocity_changes, contact_manager, fluids, boundaries)
       IN  /\ divergences' = r.values
           /\ avg_err' = r.max_error
           /\ pc' = IF divergence_converged(r.max_error, iter, dt)
                    THEN "update_velocities"
                    ELSE "compute_velocity_changes_for_divergence"
    /\ phases' = Append(phases, "compute_divergences")
    /\ UNCHANGED <<StepFrame, alphas, densities, predicted_densities,
                   velocity_changes, fluids, dt, iter, applied>>

\* divergence_solve: compute_velocity_changes_for_divergence, end of one iteration
ComputeVelocityChangesForDivergence ==
    /\ pc = "compute_velocity_changes_for_divergence"
    /\ LET r == compute_velocity_changes_for_divergence(velocity_changes, divergences,
                    alphas, dt, contact_manager, fluids, boundaries)
       IN  /\ velocity_changes' = r.values
           /\ applied' = r.calls
           /\ boundaries' = apply_forces(boundaries, r.calls)
    /\ iter' = iter + 1
    /\ pc' = IF divergence_loop_continues(iter + 1) THEN "compute_divergences"
             ELSE "update_velocities"
    /\ phases' = Append(phases, "compute_velocity_changes_for_divergence")
    /\ UNCHANGED <<config, contact_manager, gravity, scene, steps, edits,
                   alphas, densities, predicted_densities, divergences,
                   fluids, dt, avg_err>>

\* step: update_velocities, then the velocity changes are zeroed
UpdateVelocities ==
    /\ pc = "update_velocities"
    /\ fluids' = update_velocities(fluids, velocity_changes)
    /\ velocity_changes' = clear_velocity_changes(velocity_changes)
    /\ pc' = "predict_advection"
    /\ phases' = Append(phases, "update_velocities")
    /\ UNCHANGED <<StepFrame, alphas, densities, predicted_densities, divergences,
                   dt, iter, avg_err, applied>>

\* step: predict_advection
PredictAdvection ==
    /\ pc = "predict_advection"
    /\ fluids' = predict_advection(fluids, gravity)
    /\ pc' = "advance"
    /\ phases' = Append(phases, "predict_advection")
    /\ UNCHANGED <<StepFrame, buffers, dt, iter, avg_err, applied>>

\* step: timestep.advance(fluids) selects the next dt
Advance ==
    /\ pc = "advance"
    /\ dt' \in TimeSteps
    /\ pc' = "integrate_and_clear_accelerations"
    /\ phases' = Append(phases, "advance")
    /\ UNCHANGED <<StepFrame, buffers, fluids, iter, avg_err, applied>>

\* step: integrate_and_clear_accelerations
IntegrateAndClearAccelerations ==
    /\ pc = "integrate_and_clear_accelerations"
    /\ velocity_changes' = integrate_accelerations(velocity_changes, fluids, dt)
    /\ fluids' = clear_accelerations(velocity_changes, fluids)
    /\ iter' = 0
    /\ pc' = IF pressure_loop_continues(0) THEN "compute_predicted_densities"
             ELSE "update_positions"
    /\ phases' = Append(phases, "integrate_and_clear_accelerations")
    /\ UNCHANGED <<StepFrame, alphas, densities, predicted_densities, divergences,
                   dt, avg_err, applied>>

\* pressure_solve: compute_predicted_densities (with its assertion) and the break test
ComputePredictedDensities ==
    /\ pc = "compute_predicted_densities"
    /\ LET r == compute_predicted_densities(velocity_changes, densities, dt,
                    contact_manager, fluids, boundaries)
       IN  /\ predicted_densities' = r.values
           /\ avg_err' = IF r.asserted THEN r.max_error ELSE avg_err
           /\ pc' = IF ~r.asserted THEN "panic"
                    ELSE IF pressure_converged(r.max_error, iter) THEN "update_positions"
                    ELSE "compute_velocity_changes"
    /\ phases' = Append(phases, "compute_predicted_densities")
    /\ UNCHANGED <<StepFrame, alphas, densities, divergences, velocity_changes,
                   fluids, dt, iter, applied>>

\* pressure_solve: compute_velocity_changes, end of one iteration
ComputeVelocityChanges ==
    /\ pc = "compute_velocity_changes"
    /\ LET r == compute_velocity_changes(velocity_changes, predicted_densities,
                    alphas, dt, contact_manager, fluids, boundaries)
       IN  /\ velocity_changes' = r.values
           /\ applied' = r.calls
           /\ boundaries' = apply_forces(boundaries, r.calls)
    /\ iter' = iter + 1
    /\ pc' = IF pressure_loop_continues(iter + 1) THEN "compute_predicted_densities"
             ELSE "update_positions"
    /\ phases' = Append(phases, "compute_velocity_changes")
    /\ UNCHANGED <<config, contact_manager, gravity, scene, steps, edits,
                   alphas, densities, predicted_densities, divergences,
                   fluids, dt, avg_err>>

\* step: update_positions, and step returns
UpdatePositions ==
    /\ pc = "update_positions"
    /\ fluids' = update_positions(fluids, velocity_changes, dt)
    /\ pc' = "idle"
    /\ steps' = steps + 1
    /\ phases' = Append(phases, "update_positions")
    /\ UNCHANGED <<config, buffers, boundaries, contact_manager, dt, gravity,
                   iter, avg_err, applied, scene, edits>>

Next ==
    \/ DeleteParticle
    \/ AddParticle
    \/ AddFluid
    \/ RemoveFluid
    \/ InitWithFluids
    \/ ApplyParticlesRemoval
    \/ EvaluateKernels
    \/ ComputeDensities
    \/ ComputeAlphas
    \/ ComputeDivergences
    \/ ComputeVelocityChangesForDivergence
    \/ UpdateVelocities
    \/ PredictAdvection
    \/ Advance
    \/ IntegrateAndClearAccelerations
    \/ ComputePredictedDensities
    \/ ComputeVelocityChanges
    \/ UpdatePositions

Spec == Init /\ [][Next]_vars

\* ------------------------------------------------------- reading the state
Count(s, x) == Cardinality({k \in 1..Len(s) : s[k] = x})
InStep ==
    pc \in {"compute_alphas", "compute_divergences",
            "compute_velocity_changes_for_divergence", "update_velocities",
            "predict_advection", "advance", "integrate_and_clear_accelerations",
            "compute_predicted_densities", "compute_velocity_changes",
            "update_positions"}
StepReturned == pc = "idle" /\ phases # <<>> /\ Last(phases) = "update_positions"
JustRan(phase) == phases # <<>> /\ Last(phases) = phase
AllZeroVectors(buffer) ==
    \A a \in 1..Len(buffer) : \A i \in 1..Len(buffer[a]) : buffer[a][i] = VZero

\* the log with each solver loop folded into one entry
PhaseOf(name) ==
    CASE name \in {"compute_divergences", "compute_velocity_changes_for_divergence"}
            -> "divergence_solve"
      [] name \in {"compute_predicted_densities", "compute_velocity_changes"}
            -> "pressure_solve"
      [] OTHER -> name
RECURSIVE OutlineTo(_, _)
OutlineTo(log, n) ==
    IF n = 0 THEN <<>>
    ELSE LET rest == OutlineTo(log, n - 1)
             p == PhaseOf(log[n])
         IN  IF rest # <<>> /\ Last(rest) = p THEN rest ELSE Append(rest, p)
Outline(log) == OutlineTo(log, Len(log))
IsPrefix(s, t) == Len(s) <= Len(t) /\ s = SubSeq(t, 1, Len(s))

\* ------------------------------------------------------------ the claims
StepOutline ==
    << "compute_alphas", "divergence_solve", "update_velocities", "predict_advection",
       "advance", "integrate_and_clear_accelerations", "pressure_solve",
       "update_positions" >>

\* C1, as stated: one call of step runs ten phases, kernel evaluation and the
\* densities first, then alphas, divergence solve, commit, advection, advance,
\* integration, pressure solve and the position update.
C1_TenPhasesInsideStep ==
    StepReturned =>
        Outline(phases) = << "evaluate_kernels", "compute_densities" >> \o StepOutline

\* C1, amended: one call of step runs the eight phases from compute_alphas to
\* update_positions in this order, none skipped or reordered; the kernel
\* evaluation and the densities are not run by step (the caller runs them
\* before it).
C1_StepPhases ==
    /\ IsPrefix(Outline(phases), StepOutline)
    /\ StepReturned => Outline(phases) = StepOutline
    /\ InStep /\ pc # "compute_alphas" =>
            Outline(phases) # <<>> /\ Head(phases) = "compute_alphas"

C1_Witness ==
    /\ StepReturned
    /\ steps = 2
    /\ Count(phases, "compute_velocity_changes_for_divergence") >= 1
    /\ Count(phases, "compute_velocity_changes") >= 2

\* C2, as stated: at the beginning of every step the velocity changes are all
\* zero, and when a step has returned what it accumulated has been folded into
\* the velocities (nothing is left in the velocity changes).
C2_ZeroAtEveryStepBegin ==
    /\ pc = "compute_alphas" => AllZeroVectors(velocity_changes)
    /\ StepReturned => AllZeroVectors(velocity_changes)

\* C2, amended: the velocity changes are all zero at the beginning of the
\* first step and, in every step, right after the commit that follows the
\* divergence solve (when predict_advection begins); the changes a step
\* accumulates after its commit stay in the buffer when it returns.
C2_ZeroAtFirstStepAndAfterCommit ==
    /\ pc = "compute_alphas" /\ steps = 0 => AllZeroVectors(velocity_changes)
    /\ pc = "predict_advection" => AllZeroVectors(velocity_changes)

C2_Witness ==
    /\ pc = "predict_advection"
    /\ steps = 1
    /\ Count(phases, "compute_velocity_changes_for_divergence") >= 1
    /\ \E a \in 1..Len(fluids) : \E i \in 1..num_particles(fluids[a]) :
            fluids[a].velocities[i][2] # Zero /\ fluids[a].velocities[i][1] # Zero

\* C3: in one call of step the pressure loop runs at most max_pressure_iter
\* iterations and the divergence loop at most max_divergence_iter, whatever
\* the errors; a loop that reaches its cap leaves normally for the next phase
\* (the commit, the position update), and a call of step runs a number of
\* phases bounded by the two caps before its position update returns it.
C3_CapsRespected ==
    /\ Count(phases, "compute_predicted_densities") <= max_pressure_iter
    /\ Count(phases, "compute_velocity_changes") <= max_pressure_iter
    /\ Count(phases, "compute_divergences") <= max_divergence_iter
    /\ Count(phases, "compute_velocity_changes_for_divergence") <= max_divergence_iter
    /\ JustRan("compute_velocity_changes") /\ iter = max_pressure_iter
            => pc = "update_positions"
    /\ JustRan("compute_velocity_changes_for_divergence") /\ iter = max_divergence_iter
            => pc = "update_velocities"
    /\ InStep => Outline(phases) # StepOutline
    /\ Len(phases) <= 6 + 2 * max_pressure_iter + 2 * max_divergence_iter

C3_Witness ==
    /\ StepReturned
    /\ Count(phases, "compute_velocity_changes") = max_pressure_iter
    /\ Count(phases, "compute_velocity_changes_for_divergence") = max_divergence_iter
    /\ max_pressure_iter = 3
    /\ RLt(max_density_error, avg_err)

\* C4, as stated: when the density tolerance is never met, one step runs the
\* predicted-density evaluation max_pressure_iter + 1 times.
C4_OneMoreEvaluation ==
    StepReturned /\ RLt(max_density_error, avg_err) =>
        Count(phases, "compute_predicted_densities") = max_pressure_iter + 1

\* C4, amended: when the density tolerance is never met, one step runs the
\* predicted-density evaluation exactly max_pressure_iter times (3 for a cap
\* of 3), once per iteration, each followed by a velocity update; there is no
\* final evaluation.
C4_OneEvaluationPerIteration ==
    StepReturned /\ RLt(max_density_error, avg_err) =>
        /\ Count(phases, "compute_predicted_densities") = max_pressure_iter
        /\ Count(phases, "compute_velocity_changes") = max_pressure_iter
        /\ phases[Len(phases) - 1] = "compute_velocity_changes"

C4_Witness ==
    /\ StepReturned
    /\ max_density_error = Zero
    /\ min_pressure_iter = 0
    /\ max_pressure_iter = 3
    /\ RLt(Zero, avg_err)
    /\ Count(phases, "compute_predicted_densities") = 3

\* C5: a solver loop leaves early only when the error is within the tolerance
\* and the iteration index has reached the minimum, so a step runs each
\* velocity update at least min(min iterations, max iterations) times.
C5_MinimumIterations ==
    /\ pc = "update_positions" =>
        /\ Count(phases, "compute_velocity_changes")
              >= Min(min_pressure_iter, max_pressure_iter)
        /\ JustRan("compute_predicted_densities") =>
              RLe(avg_err, max_density_error) /\ iter >= min_pressure_iter
    /\ pc = "update_velocities" =>
        /\ Count(phases, "compute_velocity_changes_for_divergence")
              >= Min(min_divergence_iter, max_divergence_iter)
        /\ JustRan("compute_divergences") =>
              /\ RLe(avg_err, RMul(RMul(max_divergence_error, RDiv(One, dt)), Q(1, 100)))
              /\ iter >= min_divergence_iter

C5_Witness ==
    /\ JustRan("compute_velocity_changes")
    /\ iter = 1
    /\ min_pressure_iter >= 1
    /\ RLe(avg_err, max_density_error)

AllAtMostRest ==
    \A a \in 1..Len(fluids) : \A i \in 1..Len(predicted_densities[a]) :
        RLe(predicted_densities[a][i], fluids[a].density0)

\* C6: when every predicted density is at most the rest density of its fluid,
\* compute_velocity_changes changes no velocity change and applies no force
\* to any boundary particle.
C6_CompressionOnly ==
    [][pc = "compute_velocity_changes" /\ AllAtMostRest =>
            /\ velocity_changes' = velocity_changes
            /\ boundaries' = boundaries
            /\ applied' = <<>>]_vars

C6_Witness ==
    /\ JustRan("compute_velocity_changes")
    /\ AllAtMostRest
    /\ \E a \in 1..Len(fluids) : \E i \in 1..Len(alphas[a]) :
        /\ RLt(Zero, alphas[a][i])
        /\ RLt(predicted_densities[a][i], fluids[a].density0)
        /\ contact_manager.fluid_boundary_contacts[a][i] # <<>>
        /\ Len(contact_manager.fluid_fluid_contacts[a][i]) >= 2

FiveBuffers == <<alphas, densities, predicted_densities, divergences, velocity_changes>>

\* C7, as stated: when init_with_fluids has returned, each of the five buffers
\* has one entry per fluid, of the length of the fluid's particle count.
C7_LengthsAreParticleCounts ==
    pc = "apply_particles_removal" =>
        \A b \in 1..5 :
            /\ Len(FiveBuffers[b]) = Len(fluids)
            /\ \A a \in 1..Len(fluids) :
                    Len(FiveBuffers[b][a]) = num_particles(fluids[a])

\* C7, amended: when init_with_fluids has returned, each of the five buffers
\* has one entry per fluid, of the length of the fluid's particle count less
\* the particles its deletion mask marks; this is the fluid's particle count
\* from the moment the fluid has removed the marked particles.
C7_LengthsAreSurvivorCounts ==
    /\ pc = "apply_particles_removal" =>
        \A b \in 1..5 :
            /\ Len(FiveBuffers[b]) = Len(fluids)
            /\ \A a \in 1..Len(fluids) :
                    Len(FiveBuffers[b][a]) =
                        num_particles(fluids[a]) - num_deleted_particles(fluids[a])
    /\ InStep \/ pc \in {"evaluate_kernels", "compute_densities"} =>
        \A b \in 1..5 :
            /\ Len(FiveBuffers[b]) = Len(fluids)
            /\ \A a \in 1..Len(fluids) :
                    Len(FiveBuffers[b][a]) = num_particles(fluids[a])

C7_Witness ==
    /\ pc = "apply_particles_removal"
    /\ steps = 1
    /\ \E a \in 1..Len(fluids) :
        /\ num_deleted_particles(fluids[a]) # 0
        /\ Len(alphas[a]) >= 1

\* the index of the k-th particle the mask does not mark
KthSurvivor(mask, k) ==
    CHOOSE i \in 1..Len(mask) :
        ~mask[i] /\ Cardinality({j \in 1..i : ~mask[j]}) = k
\* the entry a particle had before the call (the fill value for a new particle)
Previous(old, a, i, fill) ==
    IF a <= Len(old) /\ i <= Len(old[a]) THEN old[a][i] ELSE fill
Compacted(old, new, a, fill) ==
    LET mask == fluids[a].deleted_particles
    IN  /\ Len(new[a]) = Cardinality({i \in 1..Len(mask) : ~mask[i]})
        /\ \A k \in 1..Len(new[a]) :
                new[a][k] = Previous(old, a, KthSurvivor(mask, k), fill)

C9_Positivity ==
    /\ InStep =>
        \A a \in 1..Len(densities) : \A i \in 1..Len(densities[a]) :
            RLt(Zero, densities[a][i])
    /\ JustRan("compute_predicted_densities") /\ pc # "panic" =>
        \A a \in 1..Len(predicted_densities) : \A i \in 1..Len(predicted_densities[a]) :
            RLt(Zero, predicted_densities[a][i])

\* a particle whose only contact is the one with itself
Isolated(a, i) ==
    /\ contact_manager.fluid_boundary_contacts[a][i] = <<>>
    /\ \A k \in 1..Len(contact_manager.fluid_fluid_contacts[a][i]) :
        LET c == contact_manager.fluid_fluid_contacts[a][i][k]
        IN  c.j_model = a /\ c.j = i

\* C10: for a fluid particle with no fluid and no boundary neighbour (and no
\* non-pressure force on its fluid) a step completes, no assertion fails, and
\* when it has returned alpha is 0, the velocity change is gravity * dt (no
\* solver loop changed it) and, after the first step, the position has
\* advanced from the origin by (v + dv) * dt.
C10_IsolatedParticle ==
    /\ scene = "isolated" => pc # "panic"
    /\ StepReturned =>
        \A a \in 1..Len(fluids) : \A i \in 1..num_particles(fluids[a]) :
            Isolated(a, i) /\ fluids[a].nonpressure_forces = <<>> =>
                /\ alphas[a][i] = Zero
                /\ velocity_changes[a][i] = VScale(gravity, dt)
                /\ steps = 1 =>
                    fluids[a].positions[i] =
                        VScale(VAdd(fluids[a].velocities[i], velocity_changes[a][i]), dt)

C10_Witness ==
    /\ StepReturned
    /\ scene = "isolated"
    /\ steps = 1
    /\ dt = Q(1, 2)
    /\ Len(fluids) = 1
    /\ num_particles(fluids[1]) = 1
    /\ fluids[1].positions[1] # VZero

UpdatePhase ==
    pc \in {"compute_velocity_changes", "compute_velocity_changes_for_divergence"}
\* the apply_force calls a velocity update made for particle (a, i), and the
\* ones it made on boundary particle (b, j)
CallsOf(log, a, i) == SelectSeq(log, LAMBDA c : c.i_model = a /\ c.i = i)
CallsOn(log, b, j) == SelectSeq(log, LAMBDA c : c.j_model = b /\ c.j = j)
\* a particle whose dv a velocity update changes through boundary contacts only
NoFluidGradient(a, i) ==
    \A k \in 1..Len(contact_manager.fluid_fluid_contacts[a][i]) :
        contact_manager.fluid_fluid_contacts[a][i][k].gradient = VZero

\* C11: in both velocity updates, every force passed to apply_force is the
\* contribution the same contact added to dv[i], times m_i / dt, negated; the
\* calls made for a particle are none or one per boundary contact, in the
\* order of its contacts; what dv[i] received through the boundary contacts
\* is the sum of the contributions of its calls; and a boundary particle's
\* force accumulator grew by the forces of the calls on it.
C11_ForceReciprocity ==
    [][UpdatePhase =>
        /\ \A n \in 1..Len(applied') :
            LET c == applied'[n]
            IN  c.force = VSub(VZero, VScale(c.contribution,
                                RDiv(particle_mass(fluids[c.i_model], c.i), dt)))
        /\ \A a \in 1..Len(fluids) : \A i \in 1..num_particles(fluids[a]) :
            LET calls == CallsOf(applied', a, i)
                fbc == contact_manager.fluid_boundary_contacts[a][i]
            IN  /\ Len(calls) \in {0, Len(fbc)}
                /\ \A k \in 1..Len(calls) :
                        calls[k].j_model = fbc[k].j_model /\ calls[k].j = fbc[k].j
                /\ NoFluidGradient(a, i) =>
                        velocity_changes'[a][i] =
                            VAdd(velocity_changes[a][i],
                                 VSum([k \in 1..Len(calls) |-> calls[k].contribution]))
        /\ \A b \in 1..Len(boundaries) : \A j \in 1..Len(boundaries[b].forces) :
            LET calls == CallsOn(applied', b, j)
            IN  boundaries'[b].forces[j] =
                    VAdd(boundaries[b].forces[j],
                         VSum([k \in 1..Len(calls) |-> calls[k].force]))]_vars

\* both updates have run in this step, each with a force that is not zero:
\* the divergence loop ran to its cap on a particle with a divergence, and
\* the pressure update has just pushed on the boundary
C11_Witness ==
    /\ JustRan("compute_velocity_changes")
    /\ \E n \in 1..Len(applied) : applied[n].force # VZero
    /\ max_divergence_iter > 0
    /\ Count(phases, "compute_velocity_changes_for_divergence") = max_divergence_iter
    /\ \E a \in 1..Len(fluids) : \E i \in 1..Len(divergences[a]) :
        /\ divergence_stiffness(divergences, alphas, a, i) # Zero
        /\ contact_manager.fluid_boundary_contacts[a][i] # <<>>

\* a particle with fewer than N_min neighbours
Gated(a, i) ==
    Len(contact_manager.fluid_fluid_contacts[a][i])
        + Len(contact_manager.fluid_boundary_contacts[a][i])
        < min_neighbors_for_divergence_solve
Largest(S) == CHOOSE x \in S : \A y \in S : y <= x
\* the divergence error of the particles of fluid a that `counted` selects
ErrorSum(dis, a, counted(_)) ==
    RSum([i \in 1..Len(dis[a]) |->
            IF counted(i) THEN RDiv(dis[a][i], fluids[a].density0) ELSE Zero])
\* what the fluid neighbours' stiffnesses add to dv[a][i] in the divergence update
NeighbourCorrection(a, i) ==
    VSum([k \in 1..Len(contact_manager.fluid_fluid_contacts[a][i]) |->
            LET c == contact_manager.fluid_fluid_contacts[a][i][k]
            IN  VScale(c.gradient,
                       RMul(RNeg(RMul(divergences[c.j_model][c.j], alphas[c.j_model][c.j])),
                            fluids[c.j_model].mass))])

\* C12, as stated: a particle below N_min neighbours gets divergence 0, the
\* divergence velocity update leaves its dv unchanged, and the per-fluid mean
\* of the divergence error is taken over the other particles only.
C12_GatedParticleExcluded ==
    [][/\ pc = "compute_divergences" =>
            /\ \A a \in 1..Len(fluids) : \A i \in 1..Len(divergences'[a]) :
                    Gated(a, i) => divergences'[a][i] = Zero
            /\ avg_err' = Largest({Zero} \cup
                    { RDiv(ErrorSum(divergences', a, LAMBDA i : ~Gated(a, i)),
                           Q(Cardinality({i \in 1..Len(divergences'[a]) : ~Gated(a, i)}), 1)) :
                      a \in {b \in 1..Len(fluids) :
                                \E i \in 1..Len(divergences'[b]) : ~Gated(b, i)} })
       /\ pc = "compute_velocity_changes_for_divergence" =>
            \A a \in 1..Len(fluids) : \A i \in 1..Len(velocity_changes[a]) :
                Gated(a, i) => velocity_changes'[a][i] = velocity_changes[a][i]]_vars

\* C12, amended: a particle below N_min neighbours gets divergence 0 and adds
\* 0 to the error sum of its fluid, whose mean is taken over all particles of
\* the fluid, the gated ones included; in the divergence velocity update its
\* own stiffness is 0, so its boundary contacts add nothing to its dv and
\* deposit zero forces, and its dv changes by what the stiffnesses of its
\* fluid neighbours add, which is nothing when they are all 0.
C12_GatedParticleContributesZero ==
    [][/\ pc = "compute_divergences" =>
            /\ \A a \in 1..Len(fluids) : \A i \in 1..Len(divergences'[a]) :
                    Gated(a, i) => divergences'[a][i] = Zero
            /\ avg_err' = Largest({Zero} \cup
                    { RDiv(ErrorSum(divergences', a, LAMBDA i : ~Gated(a, i)),
                           Q(num_particles(fluids[a]), 1)) :
                      a \in {b \in 1..Len(fluids) : num_particles(fluids[b]) # 0} })
       /\ pc = "compute_velocity_changes_for_divergence" =>
            \A a \in 1..Len(fluids) : \A i \in 1..Len(velocity_changes[a]) :
                Gated(a, i) =>
                    /\ velocity_changes'[a][i] =
                            VAdd(velocity_changes[a][i], NeighbourCorrection(a, i))
                    /\ \A n \in 1..Len(applied') :
                            applied'[n].i_model = a /\ applied'[n].i = i =>
                                applied'[n].force = VZero]_vars

\* the divergence update has just moved the dv of a gated particle whose
\* neighbour is above the gate, in a fluid whose error mean is not zero
C12_Witness ==
    /\ JustRan("compute_velocity_changes_for_divergence")
    /\ RLt(Zero, avg_err)
    /\ \E a \in 1..Len(fluids) : \E i \in 1..Len(velocity_changes[a]) :
        /\ Gated(a, i)
        /\ NeighbourCorrection(a, i) # VZero
        /\ contact_manager.fluid_boundary_contacts[a][i] = <<>>
        /\ \E j \in 1..Len(velocity_changes[a]) : ~Gated(a, j)

\* the five buffers in the middle of a phase: the slots of the particles in
\* `done` as the phase leaves them, the other slots as the phase found them
Slots(before, after, done) ==
    [a \in 1..Len(before) |-> [i \in 1..Len(before[a]) |->
        IF <<a, i>> \in done THEN after[a][i] ELSE before[a][i]]]
BuffersWith(done) ==
    [alphas |-> Slots(alphas, alphas', done),
     densities |-> Slots(densities, densities', done),
     predicted_densities |-> Slots(predicted_densities, predicted_densities', done),
     divergences |-> Slots(divergences, divergences', done),
     velocity_changes |-> Slots(velocity_changes, velocity_changes', done)]

\* the task of particle (a, i) in a phase, run in place: it reads the buffers
\* as they are when it runs and writes its slot
Task(phase, b, bs, a, i) ==
    CASE phase = "compute_densities" ->
            [b EXCEPT !.densities[a][i] = density_of(contact_manager, fluids, bs, a, i)]
      [] phase = "compute_alphas" ->
            [b EXCEPT !.alphas[a][i] = alpha_of(contact_manager, fluids, bs, a, i)]
      [] phase = "compute_predicted_densities" ->
            [b EXCEPT !.predicted_densities[a][i] =
                predicted_density_of(b.velocity_changes, b.densities, dt,
                                     contact_manager, fluids, bs, a, i)]
      [] phase = "compute_divergences" ->
            [b EXCEPT !.divergences[a][i] =
                divergence_of(b.velocity_changes, contact_manager, fluids, bs, a, i)]
      [] phase = "compute_velocity_changes" ->
            [b EXCEPT !.velocity_changes[a][i] =
                velocity_change_of(b.velocity_changes, b.predicted_densities, b.alphas,
                                   dt, contact_manager, fluids, bs, a, i).velocity_change]
      [] phase = "compute_velocity_changes_for_divergence" ->
            [b EXCEPT !.velocity_changes[a][i] =
                velocity_change_for_divergence_of(b.velocity_changes, b.divergences,
                        b.alphas, dt, contact_manager, fluids, bs, a, i).velocity_change]

Particles == {AllParticles(fluids)[k] : k \in 1..Len(AllParticles(fluids))}

ParallelPhases ==
    {"compute_densities", "compute_alphas", "compute_predicted_densities",
     "compute_divergences", "compute_velocity_changes",
     "compute_velocity_changes_for_divergence"}

\* C13: in each of the six per-particle phases, whichever tasks of the phase
\* have already run, the task of any other particle, run in place on the
\* buffers as it finds them, writes into its slot the value the phase leaves
\* there and changes nothing else. So the tasks run in any order, one after
\* the other, leave the five buffers as the phase leaves them: no task reads
\* a slot another task of the phase writes.
C13_AnyOrderSameBuffers ==
    [][pc' # "panic" /\ pc \in ParallelPhases =>
        (\A done \in SUBSET Particles : \A p \in Particles \ done :
            Task(pc, BuffersWith(done), boundaries', p[1], p[2])
                = BuffersWith(done \cup {p}))]_vars

\* a divergence update has just changed the velocity changes of three
\* particles, not all by the same amount
C13_Witness ==
    /\ JustRan("compute_velocity_changes_for_divergence")
    /\ Len(AllParticles(fluids)) >= 3
    /\ \E a \in 1..Len(fluids) : \E i \in 1..Len(velocity_changes[a]) :
        /\ velocity_changes[a][i] # VZero
        /\ \E c \in 1..Len(fluids) : \E j \in 1..Len(velocity_changes[c]) :
                velocity_changes[c][j] # velocity_changes[a][i]

Velocities(fs) == [a \in 1..Len(fs) |-> fs[a].velocities]
\* the caller changed nothing since the last step: init_with_fluids finds the
\* buffers at the size of the fluids and no particle marked
NothingToResize ==
    /\ Len(velocity_changes) = Len(fluids)
    /\ \A a \in 1..Len(fluids) :
        /\ Len(velocity_changes[a]) = num_particles(fluids[a])
        /\ num_deleted_particles(fluids[a]) = 0

\* C14: in a step the velocities are written once, by update_velocities after
\* the divergence loop (v += dv, dv zeroed) and by no other phase; the
\* position update adds (v + dv) * dt with the dv of the acceleration
\* integration and the pressure loop and leaves v and dv as they are, so that
\* dv is in the buffer when step returns; nothing but the divergence update
\* changes it from there to the update_velocities of the next step, which
\* adds it to v.
C14_VelocitiesWrittenOnce ==
    [][/\ Count(phases, "update_velocities") <= 1
       /\ StepReturned => Count(phases, "update_velocities") = 1
       /\ pc = "update_velocities" =>
            /\ \A a \in 1..Len(fluids) : \A i \in 1..num_particles(fluids[a]) :
                /\ fluids'[a].velocities[i] =
                        VAdd(fluids[a].velocities[i], velocity_changes[a][i])
                /\ velocity_changes'[a][i] = VZero
       /\ InStep /\ pc # "update_velocities" => Velocities(fluids') = Velocities(fluids)
       /\ pc = "update_positions" =>
            /\ velocity_changes' = velocity_changes
            /\ \A a \in 1..Len(fluids) : \A i \in 1..num_particles(fluids[a]) :
                    fluids'[a].positions[i] =
                        VAdd(fluids[a].positions[i],
                             VScale(VAdd(fluids[a].velocities[i], velocity_changes[a][i]), dt))
       /\ \/ pc \in {"apply_particles_removal", "evaluate_kernels", "compute_densities",
                     "compute_alphas", "compute_divergences"}
          \/ pc = "idle" /\ pc' = "apply_particles_removal" /\ NothingToResize
          => velocity_changes' = velocity_changes]_vars

\* the second step is about to fold into the velocities a velocity change its
\* divergence loop has not touched: what the first step left, and more than
\* gravity * dt, so with the part of the pressure loop
C14_Witness ==
    /\ pc = "update_velocities"
    /\ steps = 1
    /\ edits = 0
    /\ Count(phases, "compute_velocity_changes_for_divergence") = 0
    /\ \E a \in 1..Len(fluids) : \E i \in 1..Len(velocity_changes[a]) :
        /\ fluids[a].nonpressure_forces = <<>>
        /\ velocity_changes[a][i] # VZero
        /\ velocity_changes[a][i] # VScale(gravity, dt)

====
